---- MODULE Spec2Model ----
(***************************************************************************)
(* A model of the nhs-number crate: the NHSNumber value type, its parser   *)
(* (FromStr), its formatters (format, Display, Into<String>), the check    *)
(* digit functions and the testable-range sample generator.                *)
(*                                                                         *)
(* Conventions.  A Rust [i8; 10] is a sequence of 10 integers; Rust index  *)
(* i is TLA+ index i + 1.  A String / Vec<char> is a sequence of chars,    *)
(* each char a one-character TLA+ string ("U+0663" stands for the single   *)
(* non-ASCII char ARABIC-INDIC DIGIT THREE).  Values of different Rust     *)
(* types are records with a tag, so that a variable can hold any of them.  *)
(***************************************************************************)
EXTENDS Integers, Sequences, FiniteSets

VARIABLES
    digits,       \* the [i8; 10] array in hand (a literal), or None
    nhs_number,   \* the NHSNumber in hand, or None
    s,            \* the &str last given to from_str, or None
    formatted,    \* TRUE iff s is the String a formatter returned for nhs_number/digits
    op,           \* the last operation called
    ret           \* what it returned

vars == <<digits, nhs_number, s, formatted, op, ret>>

----------------------------------------------------------------------------
(* Values *)

None == [tag |-> "None"]

Panic == [tag |-> "panic"]

I8(v) == [tag |-> "i8", i8 |-> v]

Bool(b) == [tag |-> "bool", bool |-> b]

Str(chars) == [tag |-> "String", str |-> chars]

Array(d) == [tag |-> "array", arr |-> d]

(* pub struct NHSNumber { pub digits: [i8; 10] } *)
NHSNumber(d) == [tag |-> "NHSNumber", digits |-> d]

Ok(v) == [tag |-> "Ok", value |-> v]

(* Err(ParseError): the error carries no payload *)
ParseError == [tag |-> "Err"]

----------------------------------------------------------------------------
(* Bounds of the exploration *)

\* how many trailing positions of a base array (or of a base RNG outcome)
\* range over every digit
FreeDigits == 2

----------------------------------------------------------------------------
(* Characters and integer formatting *)

DecimalChars == <<"0", "1", "2", "3", "4", "5", "6", "7", "8", "9">>

(* char::to_digit(10): Some(value) for '0'..='9' only, None otherwise *)
to_digit(c) ==
    IF \E k \in 1..Len(DecimalChars) : DecimalChars[k] = c
    THEN [tag |-> "Some", val |-> (CHOOSE k \in 1..Len(DecimalChars) : DecimalChars[k] = c) - 1]
    ELSE None

(* "{}" of a non-negative integer: its decimal digits, most significant first *)
RECURSIVE FmtNat(_)
FmtNat(n) ==
    IF n < 10 THEN <<DecimalChars[n + 1]>>
    ELSE FmtNat(n \div 10) \o <<DecimalChars[(n % 10) + 1]>>

(* "{}" of an i8 (Display for i8): a '-' sign for a negative value *)
FmtI8(n) == IF n < 0 THEN <<"-">> \o FmtNat(-n) ELSE FmtNat(n)

----------------------------------------------------------------------------
(* lib.rs *)

(* NHSNumber::new: stores the array as given, no validation *)
new(d) == NHSNumber(d)

(* Display with the groups run together: "{}{}{}{}{}{} {}{}{}{}" *)
fmt_missing_first_space(self) ==
    FmtI8(self.digits[1]) \o FmtI8(self.digits[2]) \o FmtI8(self.digits[3])
    \o FmtI8(self.digits[4]) \o FmtI8(self.digits[5]) \o FmtI8(self.digits[6])
    \o <<" ">>
    \o FmtI8(self.digits[7]) \o FmtI8(self.digits[8]) \o FmtI8(self.digits[9])
    \o FmtI8(self.digits[10])

(* impl Display for NHSNumber: "{}{}{} {}{}{} {}{}{}{}" *)
fmt(self) ==
    FmtI8(self.digits[1]) \o FmtI8(self.digits[2]) \o FmtI8(self.digits[3])
    \o <<" ">>
    \o FmtI8(self.digits[4]) \o FmtI8(self.digits[5]) \o FmtI8(self.digits[6])
    \o <<" ">>
    \o FmtI8(self.digits[7]) \o FmtI8(self.digits[8]) \o FmtI8(self.digits[9])
    \o FmtI8(self.digits[10])

(* ToString::to_string, the blanket impl over Display *)
to_string(self) == fmt(self)

(* impl Into<String> for NHSNumber *)
into(self) == to_string(self)

(* format grouping 3-4-3: "{}{}{} {}{}{}{} {}{}{}" *)
format_grouped_3_4_3(d) ==
    FmtI8(d[1]) \o FmtI8(d[2]) \o FmtI8(d[3])
    \o <<" ">>
    \o FmtI8(d[4]) \o FmtI8(d[5]) \o FmtI8(d[6]) \o FmtI8(d[7])
    \o <<" ">>
    \o FmtI8(d[8]) \o FmtI8(d[9]) \o FmtI8(d[10])

(* pub fn format(digits: [i8; 10]) -> String *)
format(d) ==
    FmtI8(d[1]) \o FmtI8(d[2]) \o FmtI8(d[3])
    \o <<" ">>
    \o FmtI8(d[4]) \o FmtI8(d[5]) \o FmtI8(d[6])
    \o <<" ">>
    \o FmtI8(d[7]) \o FmtI8(d[8]) \o FmtI8(d[9]) \o FmtI8(d[10])

(* check_digit reading digits[8] *)
check_digit_off_by_one(d) == d[9]

(* pub fn check_digit(digits: [i8; 10]) -> i8 *)
check_digit(d) == d[10]

(* NHSNumber::check_digit(&self) *)
NHSNumber_check_digit(self) == check_digit(self.digits)

(* 2^64 mod 11: a negative i8 d cast `as usize` is 2^64 + d *)
TwoPow64Mod11 == 5

(* .iter().take(9).enumerate().map(|(i, &d)| d * (10 - i)).sum(), over the   *)
(* integers: the sum of the first n weighted terms                          *)
RECURSIVE WeightedSum(_, _)
WeightedSum(d, n) ==
    IF n = 0 THEN 0
    ELSE WeightedSum(d, n - 1) + d[n] * (10 - (n - 1))

(* a negative digit among the nine summed is at least 2^64 - 128 as usize,  *)
(* and its product with a weight of 2..10 overflows usize                   *)
Overflows(d) == \E i \in 1..9 : d[i] < 0

(* sum % 11 for the usize sum, which is the integer sum modulo 2^64 *)
SumMod11(d) ==
    LET sum == WeightedSum(d, 9)
    IN  IF sum >= 0 THEN sum % 11 ELSE (sum + TwoPow64Mod11) % 11

(* calculate_check_digit summing all ten digits (.take(10)) *)
calculate_check_digit_take_ten(d, overflow_checks) ==
    IF overflow_checks /\ (\E i \in 1..10 : d[i] < 0) THEN Panic
    ELSE LET sum == WeightedSum(d, 10)
         IN  I8((11 - (IF sum >= 0 THEN sum % 11 ELSE (sum + TwoPow64Mod11) % 11)) % 10)

(* pub fn calculate_check_digit(digits: [i8; 10]) -> i8                     *)
(* overflow_checks: the build panics on arithmetic overflow (debug) or      *)
(* wraps (release)                                                          *)
calculate_check_digit(d, overflow_checks) ==
    IF overflow_checks /\ Overflows(d) THEN Panic
    ELSE I8((11 - SumMod11(d)) % 10)

(* pub fn validate_check_digit(digits: [i8; 10]) -> bool *)
validate_check_digit(d, overflow_checks) ==
    LET calculated == calculate_check_digit(d, overflow_checks)
    IN  IF calculated.tag = "panic" THEN Panic
        ELSE Bool(check_digit(d) = calculated.i8)

(* NHSNumber::calculate_check_digit(&self) *)
NHSNumber_calculate_check_digit(self, overflow_checks) ==
    calculate_check_digit(self.digits, overflow_checks)

(* NHSNumber::validate_check_digit(&self) *)
NHSNumber_validate_check_digit(self, overflow_checks) ==
    validate_check_digit(self.digits, overflow_checks)

----------------------------------------------------------------------------
(* from_str.rs *)

(* one `for` loop of from_str: digits[to + i] = chars[from + i].to_digit(10) *)
(* .ok_or(ParseError)? as i8, for i in 0..n; acc is Err once a `?` returned  *)
RECURSIVE ParseLoop(_, _, _, _, _)
ParseLoop(acc, chars, from, to, n) ==
    IF n = 0 THEN acc
    ELSE LET before == ParseLoop(acc, chars, from, to, n - 1)
             i == n - 1
             dg == to_digit(chars[from + i + 1])
         IN  IF before.tag = "Err" THEN ParseError
             ELSE IF dg.tag = "None" THEN ParseError
             ELSE Array([before.arr EXCEPT ![to + i + 1] = dg.val])

(* Ok(NHSNumber { digits: digits }), unless a `?` returned Err before *)
Finish(acc) == IF acc.tag = "Err" THEN ParseError ELSE Ok(NHSNumber(acc.arr))

(* let mut digits: [i8; 10] = [0; 10]; *)
Zeroed == Array([i \in 1..10 |-> 0])

(* from_str testing the first separator only *)
from_str_second_space_unchecked(chars) ==
    IF Len(chars) = 10 THEN
        Finish(ParseLoop(Zeroed, chars, 0, 0, 10))
    ELSE IF Len(chars) = 12 THEN
        IF chars[4] # " " THEN ParseError
        ELSE Finish(ParseLoop(ParseLoop(ParseLoop(Zeroed, chars, 0, 0, 3),
                                        chars, 4, 3, 3),
                              chars, 8, 6, 4))
    ELSE ParseError

(* from_str whose last loop stores from digits[5] on (digits[i+5]) *)
from_str_last_group_shifted(chars) ==
    IF Len(chars) = 10 THEN
        Finish(ParseLoop(Zeroed, chars, 0, 0, 10))
    ELSE IF Len(chars) = 12 THEN
        IF chars[4] # " " \/ chars[8] # " " THEN ParseError
        ELSE Finish(ParseLoop(ParseLoop(ParseLoop(Zeroed, chars, 0, 0, 3),
                                        chars, 4, 3, 3),
                              chars, 8, 5, 4))
    ELSE ParseError

(* impl FromStr for NHSNumber: fn from_str(s: &str) -> Result<Self, ParseError> *)
from_str(chars) ==
    IF Len(chars) = 10 THEN
        Finish(ParseLoop(Zeroed, chars, 0, 0, 10))
    ELSE IF Len(chars) = 12 THEN
        IF chars[4] # " " \/ chars[8] # " " THEN ParseError
        ELSE Finish(ParseLoop(ParseLoop(ParseLoop(Zeroed, chars, 0, 0, 3),
                                        chars, 4, 3, 3),
                              chars, 8, 6, 4))
    ELSE ParseError

----------------------------------------------------------------------------
(* testable.rs *)

TESTABLE_MIN == NHSNumber(<<9, 9, 9, 0, 0, 0, 0, 0, 0, 0>>)

TESTABLE_MAX == NHSNumber(<<9, 9, 9, 9, 9, 9, 9, 9, 9, 9>>)

(* #[derive(PartialOrd, Ord)] on NHSNumber: lexicographic on the array *)
RECURSIVE LexLeFrom(_, _, _)
LexLeFrom(a, b, i) ==
    IF i > Len(a) THEN TRUE
    ELSE IF a[i] < b[i] THEN TRUE
    ELSE IF a[i] > b[i] THEN FALSE
    ELSE LexLeFrom(a, b, i + 1)

Le(a, b) == LexLeFrom(a.digits, b.digits, 1)

(* random_range of a range one too long *)
random_range_past_end(lo, hi) == lo..(hi + 1)

(* rng.random_range(lo..=hi): any value of the inclusive range *)
random_range(lo, hi) == lo..hi

(* pub fn testable_random_sample() -> NHSNumber; draws are the seven values *)
(* the random source returned, in call order                                *)
testable_random_sample(draws) ==
    NHSNumber(<<9, 9, 9, draws[1], draws[2], draws[3], draws[4],
                draws[5], draws[6], draws[7]>>)

(* NHSNumber::testable_random_sample() *)
NHSNumber_testable_random_sample(draws) == testable_random_sample(draws)

----------------------------------------------------------------------------
(* Inputs *)

(* the sequences that differ from one of `bases` in one position, which     *)
(* holds a value of vals                                                     *)
OneChanged(bases, vals) ==
    UNION { { [d EXCEPT ![i] = v] : i \in DOMAIN d, v \in vals } : d \in bases }

(* the sequences that agree with one of `bases` except in the last k         *)
(* positions, which hold any values of vals                                  *)
RECURSIVE FreeTail(_, _, _)
FreeTail(bases, k, vals) ==
    IF k = 0 THEN bases
    ELSE LET prev == FreeTail(bases, k - 1, vals)
         IN  UNION { { [d EXCEPT ![Len(d) - (k - 1)] = v] : v \in vals } : d \in prev }

(* i8 values that are not decimal digits: the neighbours of 0..9 and the     *)
(* ends of the type                                                          *)
NonDigits == {-128, -1, 10, 127}

(* arrays of the crate's tests and documentation *)
BaseArrays ==
    { <<0, 1, 2, 3, 4, 5, 6, 7, 8, 9>>,
      <<9, 9, 9, 1, 2, 3, 4, 5, 6, 0>>,
      <<9, 4, 3, 4, 7, 6, 5, 9, 1, 9>>,
      <<9, 8, 7, 6, 5, 4, 3, 2, 1, 0>>,
      TESTABLE_MIN.digits,
      TESTABLE_MAX.digits }

DigitArrays ==
    FreeTail(BaseArrays, FreeDigits, 0..9)
    \cup OneChanged(BaseArrays, 0..9)
    \cup OneChanged(BaseArrays, NonDigits)

InRange(d) == Len(d) = 10 /\ \A i \in 1..10 : d[i] \in 0..9

\* outcomes of the seven random_range calls
BaseDraws ==
    { <<0, 0, 0, 0, 0, 0, 0>>, <<9, 9, 9, 9, 9, 9, 9>>, <<1, 2, 3, 4, 5, 6, 0>> }

RngDraws ==
    FreeTail(BaseDraws, FreeDigits, random_range(0, 9))
    \cup OneChanged(BaseDraws, random_range(0, 9))

\* strings of the crate's tests and documentation
BaseStrings ==
    { <<"0","1","2","3","4","5","6","7","8","9">>,
      <<"0","1","2"," ","3","4","5"," ","6","7","8","9">>,
      <<"0","1","2","-","3","4","5","-","6","7","8","9">>,
      <<" ","0","1","2"," ","3","4","5"," ","6","7","8","9">>,
      <<"0","1","2"," ","3","4","5","6","7","8","9">>,
      <<"0","1","2","3","4","5"," ","6","7","8","9">>,
      <<"0","1","2"," "," ","3","4","5"," "," ","6","7","8","9">>,
      <<"0","1","2"," ","3","4","5"," ","6","7","8","9"," ">>,
      <<"0","1","2">>,
      <<"9","9","9"," ","1","2","3"," ","4","5","6","0">> }

\* characters typed in an edit: digits, the separator, and non-digits
EditChars == {"0", "9", " ", "-", "a", "U+0663"}

\* t with one character replaced, inserted or deleted
Edits(t) ==
    { [t EXCEPT ![i] = c] : i \in 1..Len(t), c \in EditChars }
    \cup { SubSeq(t, 1, i) \o <<c>> \o SubSeq(t, i + 1, Len(t)) : i \in 0..Len(t), c \in EditChars }
    \cup { SubSeq(t, 1, i - 1) \o SubSeq(t, i + 1, Len(t)) : i \in 1..Len(t) }

\* the ten digits of d written without separators, and written as DDD DDD DDDD
Ungrouped(d) == [i \in 1..10 |-> DecimalChars[d[i] + 1]]

Grouped(d) ==
    LET u == Ungrouped(d)
    IN  SubSeq(u, 1, 3) \o <<" ">> \o SubSeq(u, 4, 6) \o <<" ">> \o SubSeq(u, 7, 10)

StrInputs ==
    {<<>>}
    \cup BaseStrings
    \cup UNION { Edits(t) : t \in BaseStrings }
    \cup { Ungrouped(d) : d \in { a \in DigitArrays : InRange(a) } }
    \cup { Grouped(d) : d \in { a \in DigitArrays : InRange(a) } }

----------------------------------------------------------------------------
(* The state machine: a caller holding an array, a string or an NHSNumber,   *)
(* and calling the crate's functions on what it holds                        *)

Init ==
    /\ op = "start"
    /\ ret = None
    /\ nhs_number = None
    /\ formatted = FALSE
    /\ \/ digits \in { Array(d) : d \in DigitArrays } /\ s = None
       \/ digits = None /\ s \in { Str(t) : t \in StrInputs }
       \/ digits = None /\ s = None

(* let nhs_number = NHSNumber::new(digits); *)
New ==
    /\ digits # None
    /\ nhs_number' = new(digits.arr)
    /\ digits' = None
    /\ s' = None
    /\ formatted' = FALSE
    /\ op' = "new"
    /\ ret' = nhs_number'

(* NHSNumber::from_str(s), on the string in hand or on the String a          *)
(* formatter just returned                                                   *)
FromStr ==
    /\ \/ op = "start" /\ s # None /\ s' = s /\ formatted' = FALSE
       \/ op \in {"format", "to_string", "into"} /\ s' = ret /\ formatted' = TRUE
    /\ ret' = from_str(s'.str)
    /\ op' = "from_str"
    /\ UNCHANGED <<digits, nhs_number>>

(* .unwrap() of an Ok result *)
Unwrap ==
    /\ op = "from_str"
    /\ ret.tag = "Ok"
    /\ nhs_number' = ret.value
    /\ digits' = None
    /\ s' = None
    /\ formatted' = FALSE
    /\ op' = "unwrap"
    /\ ret' = ret.value

(* what a call that is not from_str leaves behind *)
Called(name) ==
    /\ op' = name
    /\ s' = None
    /\ formatted' = FALSE
    /\ UNCHANGED <<digits, nhs_number>>

(* format(digits) *)
Format ==
    /\ \/ digits # None /\ ret' = Str(format(digits.arr))
       \/ nhs_number # None /\ ret' = Str(format(nhs_number.digits))
    /\ Called("format")

(* nhs_number.to_string() *)
ToString ==
    /\ nhs_number # None
    /\ ret' = Str(to_string(nhs_number))
    /\ Called("to_string")

(* let string: String = nhs_number.into(); *)
Into ==
    /\ nhs_number # None
    /\ ret' = Str(into(nhs_number))
    /\ Called("into")

(* check_digit(digits), nhs_number.check_digit() *)
CheckDigit ==
    /\ \/ digits # None /\ ret' = I8(check_digit(digits.arr))
       \/ nhs_number # None /\ ret' = I8(NHSNumber_check_digit(nhs_number))
    /\ Called("check_digit")

(* calculate_check_digit(digits), nhs_number.calculate_check_digit() *)
CalculateCheckDigit ==
    /\ \E overflow_checks \in BOOLEAN :
        \/ digits # None /\ ret' = calculate_check_digit(digits.arr, overflow_checks)
        \/ nhs_number # None
           /\ ret' = NHSNumber_calculate_check_digit(nhs_number, overflow_checks)
    /\ Called("calculate_check_digit")

(* validate_check_digit(digits), nhs_number.validate_check_digit() *)
ValidateCheckDigit ==
    /\ \E overflow_checks \in BOOLEAN :
        \/ digits # None /\ ret' = validate_check_digit(digits.arr, overflow_checks)
        \/ nhs_number # None
           /\ ret' = NHSNumber_validate_check_digit(nhs_number, overflow_checks)
    /\ Called("validate_check_digit")

(* testable_random_sample(), NHSNumber::testable_random_sample() *)
TestableRandomSample ==
    /\ op = "start" /\ digits = None /\ s = None
    /\ \E draws \in RngDraws :
        \/ nhs_number' = testable_random_sample(draws)
        \/ nhs_number' = NHSNumber_testable_random_sample(draws)
    /\ ret' = nhs_number'
    /\ op' = "testable_random_sample"
    /\ UNCHANGED <<digits, s, formatted>>

Next ==
    \/ New
    \/ FromStr
    \/ Unwrap
    \/ Format
    \/ ToString
    \/ Into
    \/ CheckDigit
    \/ CalculateCheckDigit
    \/ ValidateCheckDigit
    \/ TestableRandomSample

Spec == Init /\ [][Next]_vars

(* the array the last call was about *)
Self == IF nhs_number # None THEN nhs_number.digits ELSE digits.arr

----------------------------------------------------------------------------
(* Vocabulary of the properties *)

(* the weighted sum of the first nine digits: digit i (0-based) weighs 10 - i *)
Weighted(d) ==
    10 * d[1] + 9 * d[2] + 8 * d[3] + 7 * d[4] + 6 * d[5]
    + 5 * d[6] + 4 * d[7] + 3 * d[8] + 2 * d[9]

AsciiDigits == {"0", "1", "2", "3", "4", "5", "6", "7", "8", "9"}

CharValue(c) ==
    CASE c = "0" -> 0 [] c = "1" -> 1 [] c = "2" -> 2 [] c = "3" -> 3 [] c = "4" -> 4
      [] c = "5" -> 5 [] c = "6" -> 6 [] c = "7" -> 7 [] c = "8" -> 8 [] c = "9" -> 9

(* the digit positions of the 12-character form (1-based: 0-2, 4-6, 8-11) *)
DigitPositions12 == {1, 2, 3, 5, 6, 7, 9, 10, 11, 12}

(* ten ASCII digits *)
WellFormed10(t) == Len(t) = 10 /\ \A i \in 1..10 : t[i] \in AsciiDigits

(* DDD DDD DDDD *)
WellFormed12(t) ==
    /\ Len(t) = 12
    /\ t[4] = " " /\ t[8] = " "
    /\ \A i \in DigitPositions12 : t[i] \in AsciiDigits

IsSpace(c) == c = " "

NotSpace(c) == ~IsSpace(c)

----------------------------------------------------------------------------
(* Properties *)

(* C1: for every 10-digit sequence (digits 0..9) whose weighted sum of the  *)
(* first nine digits is divisible by 11, calculate_check_digit returns 0.   *)
C1_RemainderZeroGivesZero ==
    (op = "calculate_check_digit" /\ InRange(Self) /\ Weighted(Self) % 11 = 0)
        => ret = I8(0)

(* C2: for every 10-digit sequence (digits 0..9) whose weighted sum of the  *)
(* first nine digits has remainder 1 mod 11 (checksum 10),                  *)
(* validate_check_digit returns false, whatever the tenth digit is.         *)
C2_ChecksumTenIsInvalid ==
    (op = "validate_check_digit" /\ InRange(Self) /\ Weighted(Self) % 11 = 1)
        => ret = Bool(FALSE)

(* C3: for every 10-digit sequence D with digits in 0..9, parsing the       *)
(* formatted string gives back D: from_str(format(D)) is Ok and its digits  *)
(* equal D.                                                                 *)
C3_FormatParseRoundTrip ==
    (op = "from_str" /\ formatted /\ InRange(Self))
        => ret = Ok(NHSNumber(Self))

C3_Witness ==
    /\ op = "from_str" /\ formatted /\ InRange(Self)
    /\ s = Str(Grouped(Self))
    /\ ret = Ok(NHSNumber(Self))

(* C4: from_str returns Err(ParseError), and never panics, when the         *)
(* character count is neither 10 nor 12, when a 12-character input does not *)
(* have a space at both index 3 and index 7, and when any character in a    *)
(* digit position is not an ASCII decimal digit.                            *)
C4_MalformedIsParseError ==
    op = "from_str" =>
        LET t == s.str
        IN  /\ ret.tag \in {"Ok", "Err"}
            /\ Len(t) \notin {10, 12} => ret = ParseError
            /\ (Len(t) = 12 /\ ~(t[4] = " " /\ t[8] = " ")) => ret = ParseError
            /\ (Len(t) = 10 /\ \E i \in 1..10 : t[i] \notin AsciiDigits)
                   => ret = ParseError
            /\ (Len(t) = 12 /\ \E i \in DigitPositions12 : t[i] \notin AsciiDigits)
                   => ret = ParseError

C4_Witness ==
    /\ op = "from_str"
    /\ Len(s.str) = 12
    /\ s.str[4] = " " /\ s.str[8] = "-"
    /\ \A i \in DigitPositions12 : s.str[i] \in AsciiDigits
    /\ ret = ParseError

(* C5: from_str succeeds on every well-formed input and returns exactly the *)
(* digits in order: for 10 ASCII digits, digit i is the value of character  *)
(* i; for DDD DDD DDDD, the digit values of the string with the two spaces  *)
(* removed.                                                                 *)
C5_WellFormedParses ==
    op = "from_str" =>
        LET t == s.str
        IN  /\ WellFormed10(t) =>
                /\ ret.tag = "Ok"
                /\ Len(ret.value.digits) = 10
                /\ \A i \in 1..10 : ret.value.digits[i] = CharValue(t[i])
            /\ WellFormed12(t) =>
                /\ ret.tag = "Ok"
                /\ Len(ret.value.digits) = 10
                /\ \A i \in 1..10 :
                       ret.value.digits[i] = CharValue(SelectSeq(t, NotSpace)[i])

C5_Witness ==
    /\ op = "from_str" /\ ~formatted
    /\ WellFormed12(s.str)
    /\ ret = Ok(NHSNumber(<<9, 9, 9, 1, 2, 3, 4, 5, 6, 0>>))

C7_ValidateIffStoredEqualsCalculated ==
    /\ op = "check_digit" => ret = I8(Self[10])
    /\ (op = "validate_check_digit" /\ InRange(Self)) =>
           /\ ret.tag = "bool"
           /\ \A oc \in BOOLEAN :
                  /\ calculate_check_digit(Self, oc).tag = "i8"
                  /\ ret.bool = (Self[10] = calculate_check_digit(Self, oc).i8)

C7_Witness ==
    /\ op = "validate_check_digit"
    /\ Self = <<9, 4, 3, 4, 7, 6, 5, 9, 1, 9>>
    /\ ret = Bool(TRUE)

(* C8: every value returned by testable_random_sample, for every outcome of *)
(* the random source, has first three digits 9,9,9 and each of the other    *)
(* seven digits in 0..9, and so TESTABLE_MIN <= sample <= TESTABLE_MAX in   *)
(* the lexicographic order of the digit sequence.                           *)
C8_SampleInTestableRange ==
    op = "testable_random_sample" =>
        /\ ret.tag = "NHSNumber"
        /\ Len(ret.digits) = 10
        /\ \A i \in 1..3 : ret.digits[i] = 9
        /\ \A i \in 4..10 : ret.digits[i] \in 0..9
        /\ Le(TESTABLE_MIN, ret)
        /\ Le(ret, TESTABLE_MAX)
        /\ TESTABLE_MIN.digits = <<9, 9, 9, 0, 0, 0, 0, 0, 0, 0>>
        /\ TESTABLE_MAX.digits = <<9, 9, 9, 9, 9, 9, 9, 9, 9, 9>>

C8_Witness ==
    /\ op = "testable_random_sample"
    /\ ret = NHSNumber(<<9, 9, 9, 1, 2, 3, 4, 5, 0, 9>>)

(* C9: every NHSNumber value, however it is constructed (NHSNumber::new or  *)
(* a struct literal, from_str, testable_random_sample), holds exactly 10    *)
(* digits and every digit is in 0..9.                                       *)
C9_EveryNumberHoldsDigits ==
    /\ nhs_number # None => InRange(nhs_number.digits)
    /\ ret.tag = "NHSNumber" => InRange(ret.digits)
    /\ ret.tag = "Ok" => InRange(ret.value.digits)

(* C10: for every 10-digit sequence D with digits in 0..9, format(D),       *)
(* NHSNumber::new(D).to_string() and Into<String> return the same string,   *)
(* of exactly 12 characters, a space at index 3 and at index 7, the ten     *)
(* digits of D in order elsewhere, no leading or trailing whitespace.       *)
C10_FormattersAgreeOnCanonicalForm ==
    (op \in {"format", "to_string", "into"} /\ InRange(Self)) =>
        LET r == ret.str
        IN  /\ ret.tag = "String"
            /\ Len(r) = 12
            /\ r[4] = " " /\ r[8] = " "
            /\ \A i \in 1..3 : r[i] \in AsciiDigits /\ CharValue(r[i]) = Self[i]
            /\ \A i \in 4..6 : r[i + 1] \in AsciiDigits /\ CharValue(r[i + 1]) = Self[i]
            /\ \A i \in 7..10 : r[i + 2] \in AsciiDigits /\ CharValue(r[i + 2]) = Self[i]
            /\ r[1] # " " /\ r[12] # " "
            /\ format(Self) = r
            /\ to_string(new(Self)) = r
            /\ into(new(Self)) = r

C10_Witness ==
    /\ op = "into"
    /\ nhs_number = NHSNumber(<<0, 1, 2, 3, 4, 5, 6, 7, 8, 9>>)
    /\ ret = Str(<<"0", "1", "2", " ", "3", "4", "5", " ", "6", "7", "8", "9">>)

(* C11: the check digit detects every single-digit transcription error: for *)
(* every 10-digit sequence D (digits 0..9) that validate_check_digit        *)
(* accepts, every position i in 0..9 and every digit v in 0..9 other than   *)
(* D[i], validate_check_digit rejects D with digit i replaced by v.         *)
C11_SingleDigitErrorDetected ==
    (op = "validate_check_digit" /\ InRange(Self) /\ ret = Bool(TRUE)) =>
        \A i \in 1..10 : \A v \in (0..9) \ {Self[i]} : \A oc \in BOOLEAN :
            validate_check_digit([Self EXCEPT ![i] = v], oc) = Bool(FALSE)

====
